---- MODULE Spec2Model ----
(***************************************************************************)
(* Model of collector/nfsd_linux.go: the nfsd collector's Update, which    *)
(* reads one snapshot of the NFS server statistics and sends one constant  *)
(* metric per send statement on the channel it was given.                  *)
(*                                                                         *)
(* Numbers.  The statistics are uint64 and the metric values are float64.  *)
(* Both are modelled exactly, as the set of the positions of the one-bits  *)
(* of the integer they denote: 5 is {0, 2}, 2^53 + 1 is {0, 53}.           *)
(* A metric name is the tuple of the parts BuildFQName joins with "_".     *)
(***************************************************************************)
EXTENDS Integers, Sequences, FiniteSets, TLC

\* ---------------------------------------------------------------- bounds
\* A snapshot field is set to 2^53 + 2k + 1 for k in 0..MaxVal.
MaxVal == 1
\* The capacity of the channel the caller hands to Update is in 0..MaxCap.
MaxCap == 1

\* --------------------------------------------------------------- numbers
\* The largest uint64, 2^64 - 1.
MaxUint64 == 0..63
\* Precision of a float64: 53 significant bits.
Float64Precision == 53

\* The bits of a small natural number.
BitsOf(n) == {i \in 0..30 : (n \div (2^i)) % 2 = 1}

\* The highest one-bit of a non-zero number of at most 65 bits.
RECURSIVE HighestFrom(_, _)
HighestFrom(S, b) == IF b \in S THEN b ELSE HighestFrom(S, b - 1)
MaxBit(S) == HighestFrom(S, 64)

\* The lowest zero-bit at or above position b.
RECURSIVE LowestClearFrom(_, _)
LowestClearFrom(S, b) == IF b \in S THEN LowestClearFrom(S, b + 1) ELSE b

\* S + 2^b: the carry runs through the one-bits from b up to the first zero-bit.
AddBit(S, b) ==
    LET z == LowestClearFrom(S, b)
    IN  {x \in S : x < b \/ x > z} \cup {z}

\* x rounded to p significant bits, to nearest, ties to even; x itself when
\* it has no more than p significant bits below its highest one-bit.
RoundTo(S, p) ==
    IF \A b \in S : b < p THEN S
    ELSE LET ulp    == MaxBit(S) - (p - 1)
             kept   == {b \in S : b >= ulp}
             half   == (ulp - 1) \in S
             sticky == \E b \in S : b < ulp - 1
             odd    == ulp \in S
         IN  IF half /\ (sticky \/ odd) THEN AddBit(kept, ulp) ELSE kept

\* float64(x) of a uint64 x: the float64 nearest to x.
float64(S) == RoundTo(S, Float64Precision)

\* ---------------------------------------------------------------- inputs
\* The statistics a successful NFSdServerRPCStats returns (the fields Update
\* reads).  The base snapshot has pairwise different fields.
BaseStats ==
    [ReplyCache     |-> [Hits |-> BitsOf(10), Misses |-> BitsOf(2), NoCache |-> BitsOf(1)],
     FileHandles    |-> [Stale |-> BitsOf(0)],
     InputOutput    |-> [Read |-> BitsOf(1000), Write |-> BitsOf(500)],
     Threads        |-> [Threads |-> BitsOf(8)],
     ReadAheadCache |-> [CacheSize |-> BitsOf(32), NotFound |-> BitsOf(3)],
     Network        |-> [UDPCount |-> BitsOf(100), TCPCount |-> BitsOf(50),
                         TCPConnect |-> BitsOf(7)]]

StatFields ==
    {<<"ReplyCache", "Hits">>, <<"ReplyCache", "Misses">>, <<"ReplyCache", "NoCache">>,
     <<"FileHandles", "Stale">>,
     <<"InputOutput", "Read">>, <<"InputOutput", "Write">>,
     <<"Threads", "Threads">>,
     <<"ReadAheadCache", "CacheSize">>, <<"ReadAheadCache", "NotFound">>,
     <<"Network", "UDPCount">>, <<"Network", "TCPCount">>, <<"Network", "TCPConnect">>}

\* The odd numbers 2^53 + 2k + 1, the first integers that are no float64
\* (2^53 + 1 lies halfway between two float64 and rounds down to the even
\* one, 2^53 + 3 rounds up), and the largest uint64.
StatValues ==
    {{Float64Precision} \cup BitsOf(2 * k + 1) : k \in 0..MaxVal} \cup {MaxUint64}

\* The base snapshot, and the base snapshot with one field set to one of the
\* values.
Snapshots ==
    {BaseStats}
        \cup {[BaseStats EXCEPT ![p[1]][p[2]] = v] : p \in StatFields, v \in StatValues}

\* What a failing NFSdServerRPCStats reports: the file cannot be opened, or
\* it cannot be parsed.
AcquireErrors == {"open /proc/net/rpc/nfsd: no such file or directory",
                  "invalid nfsd file"}

\* ------------------------------------------------------------ the metrics
namespace == "node"
nfsdSubsystem == "nfsd"

CounterValue == "counter"
GaugeValue == "gauge"

\* prometheus.BuildFQName: the non-empty parts, joined by "_" (the tuple of
\* the parts stands for the joined string).
BuildFQName(ns, subsystem, name) ==
    IF name = "" THEN <<>>
    ELSE IF ns # "" /\ subsystem # "" THEN <<ns, subsystem, name>>
    ELSE IF ns # "" THEN <<ns, name>>
    ELSE IF subsystem # "" THEN <<subsystem, name>>
    ELSE <<name>>

\* prometheus.NewDesc allocates a descriptor; site, the line of the call,
\* stands for the address of the object one call of Update allocates there.
NewDesc(fqName, help, variableLabels, site) ==
    [fqName |-> fqName, help |-> help, variableLabels |-> variableLabels, ptr |-> site]

Panic == [panic |-> "inconsistent label cardinality"]

\* prometheus.MustNewConstMetric panics unless there is one label value for
\* every variable label of the descriptor.
MustNewConstMetric(desc, valueType, value, labelValues) ==
    IF Len(labelValues) # Len(desc.variableLabels) THEN Panic
    ELSE [desc |-> desc, valType |-> valueType, val |-> value, labelValues |-> labelValues]

\* ------------------------------------------------- the six update functions
\* Each is the sequence of the operands of its send statements, in order.

\* updateNFSdReplyCacheStats collects statistics for the reply cache.
updateNFSdReplyCacheStats(s) ==
    << MustNewConstMetric(
           NewDesc(BuildFQName(namespace, nfsdSubsystem, "reply_cache_hits_total"),
                   "NFSd Reply Cache client did not receive a reply and decided to re-transmit its request and the reply was cached. (bad).",
                   <<>>, 70),
           CounterValue, float64(s.Hits), <<>>),
       MustNewConstMetric(
           NewDesc(BuildFQName(namespace, nfsdSubsystem, "reply_cache_misses_total"),
                   "NFSd Reply Cache an operation that requires caching (idempotent).",
                   <<>>, 79),
           CounterValue, float64(s.Misses), <<>>),
       MustNewConstMetric(
           NewDesc(BuildFQName(namespace, nfsdSubsystem, "reply_cache_nocache_total"),
                   "NFSd Reply Cache non-idempotent operations (rename/delete/...).",
                   <<>>, 88),
           CounterValue, float64(s.NoCache), <<>>) >>

\* Mutation: a stale count of zero is not sent.
updateNFSdFileHandlesStats_SkipZero(s) ==
    IF s.Stale = {} THEN <<>>
    ELSE << MustNewConstMetric(
                NewDesc(BuildFQName(namespace, nfsdSubsystem, "file_handles_stale_total"),
                        "NFSd stale file handles",
                        <<>>, 101),
                CounterValue, float64(s.Stale), <<>>) >>

\* updateNFSdFileHandlesStats collects statistics for the file handles.
updateNFSdFileHandlesStats(s) ==
    << MustNewConstMetric(
           NewDesc(BuildFQName(namespace, nfsdSubsystem, "file_handles_stale_total"),
                   "NFSd stale file handles",
                   <<>>, 101),
           CounterValue, float64(s.Stale), <<>>) >>

\* Mutation: the bytes read and the bytes written are interchanged.
updateNFSdInputOutputStats_Swapped(s) ==
    << MustNewConstMetric(
           NewDesc(BuildFQName(namespace, nfsdSubsystem, "disk_bytes_read_total"),
                   "NFSd bytes read",
                   <<>>, 115),
           CounterValue, float64(s.Write), <<>>),
       MustNewConstMetric(
           NewDesc(BuildFQName(namespace, nfsdSubsystem, "disk_bytes_written_total"),
                   "NFSd bytes written",
                   <<>>, 124),
           CounterValue, float64(s.Read), <<>>) >>

\* updateNFSdInputOutputStats collects statistics for the bytes in/out.
updateNFSdInputOutputStats(s) ==
    << MustNewConstMetric(
           NewDesc(BuildFQName(namespace, nfsdSubsystem, "disk_bytes_read_total"),
                   "NFSd bytes read",
                   <<>>, 115),
           CounterValue, float64(s.Read), <<>>),
       MustNewConstMetric(
           NewDesc(BuildFQName(namespace, nfsdSubsystem, "disk_bytes_written_total"),
                   "NFSd bytes written",
                   <<>>, 124),
           CounterValue, float64(s.Write), <<>>) >>

\* Mutation: the thread count is sent as a counter.
updateNFSdThreadsStats_AsCounter(s) ==
    << MustNewConstMetric(
           NewDesc(BuildFQName(namespace, nfsdSubsystem, "server_threads"),
                   "NFSd how many kernel threads are running",
                   <<>>, 137),
           CounterValue, float64(s.Threads), <<>>) >>

\* updateNFSdThreadsStats collects statistics for kernel server threads.
updateNFSdThreadsStats(s) ==
    << MustNewConstMetric(
           NewDesc(BuildFQName(namespace, nfsdSubsystem, "server_threads"),
                   "NFSd how many kernel threads are running",
                   <<>>, 137),
           GaugeValue, float64(s.Threads), <<>>) >>

\* Mutation: the second sample is given the name of the first, as it is given
\* its help text.
updateNFSdReadAheadCacheStats_SameName(s) ==
    << MustNewConstMetric(
           NewDesc(BuildFQName(namespace, nfsdSubsystem, "read_ahead_cache_size_blocks"),
                   "NFSd how large the read ahead cache in blocks",
                   <<>>, 150),
           GaugeValue, float64(s.CacheSize), <<>>),
       MustNewConstMetric(
           NewDesc(BuildFQName(namespace, nfsdSubsystem, "read_ahead_cache_size_blocks"),
                   "NFSd how large the read ahead cache in blocks",
                   <<>>, 159),
           CounterValue, float64(s.NotFound), <<>>) >>

\* updateNFSdReadAheadCacheStats collects statistics for the read ahead cache.
updateNFSdReadAheadCacheStats(s) ==
    << MustNewConstMetric(
           NewDesc(BuildFQName(namespace, nfsdSubsystem, "read_ahead_cache_size_blocks"),
                   "NFSd how large the read ahead cache in blocks",
                   <<>>, 150),
           GaugeValue, float64(s.CacheSize), <<>>),
       MustNewConstMetric(
           NewDesc(BuildFQName(namespace, nfsdSubsystem, "read_ahead_cache_not_found_total"),
                   "NFSd how large the read ahead cache in blocks",
                   <<>>, 159),
           CounterValue, float64(s.NotFound), <<>>) >>

\* Mutation: the UDP and the TCP packet counts are interchanged.
updateNFSdNetworkStats_Swapped(s) ==
    LET packetDesc ==
            NewDesc(BuildFQName(namespace, nfsdSubsystem, "packets_total"),
                    "NFSd how many network packets have been sent/recieved",
                    <<"proto">>, 171)
    IN  << MustNewConstMetric(packetDesc, CounterValue, float64(s.TCPCount), <<"udp">>),
           MustNewConstMetric(packetDesc, CounterValue, float64(s.UDPCount), <<"tcp">>),
           MustNewConstMetric(
               NewDesc(BuildFQName(namespace, nfsdSubsystem, "connections_total"),
                       "NFSd how many TCP connections have been made",
                       <<>>, 186),
               CounterValue, float64(s.TCPConnect), <<>>) >>

\* updateNFSdNetworkStats collects statistics for network packets/connections.
updateNFSdNetworkStats(s) ==
    LET packetDesc ==
            NewDesc(BuildFQName(namespace, nfsdSubsystem, "packets_total"),
                    "NFSd how many network packets have been sent/recieved",
                    <<"proto">>, 171)
    IN  << MustNewConstMetric(packetDesc, CounterValue, float64(s.UDPCount), <<"udp">>),
           MustNewConstMetric(packetDesc, CounterValue, float64(s.TCPCount), <<"tcp">>),
           MustNewConstMetric(
               NewDesc(BuildFQName(namespace, nfsdSubsystem, "connections_total"),
                       "NFSd how many TCP connections have been made",
                       <<>>, 186),
               CounterValue, float64(s.TCPConnect), <<>>) >>

\* Mutation: the threads are collected before the bytes in/out.
UpdateSends_ThreadsBeforeIO(st) ==
    updateNFSdReplyCacheStats(st.ReplyCache)
        \o updateNFSdFileHandlesStats(st.FileHandles)
        \o updateNFSdThreadsStats(st.Threads)
        \o updateNFSdInputOutputStats(st.InputOutput)
        \o updateNFSdReadAheadCacheStats(st.ReadAheadCache)
        \o updateNFSdNetworkStats(st.Network)

\* The send statements Update runs after a successful acquisition, in the
\* order of its six calls.
UpdateSends(st) ==
    updateNFSdReplyCacheStats(st.ReplyCache)
        \o updateNFSdFileHandlesStats(st.FileHandles)
        \o updateNFSdInputOutputStats(st.InputOutput)
        \o updateNFSdThreadsStats(st.Threads)
        \o updateNFSdReadAheadCacheStats(st.ReadAheadCache)
        \o updateNFSdNetworkStats(st.Network)

\* fmt.Errorf("failed to retrieve nfsd stats: %v", err)
Errorf(err) == [error |-> <<"failed to retrieve nfsd stats: ", err>>]

Nil == [error |-> <<>>]
Pending == [pending |-> TRUE]
NoStats == [none |-> TRUE]
NoErr == "nil"
NoCycle == [none |-> TRUE]

\* ------------------------------------------------------------------ state
VARIABLES
    pc,            \* where Update is: "idle" (not running), "acquire", "produce"
                   \* (about to evaluate the operand of send statement idx), "send"
                   \* (blocked in that send), "return", "panic"
    idx,           \* the send statement Update is at, 0 outside the sends
    stats,         \* Update's local stats
    err,           \* Update's local err
    acquisitions,  \* calls of NFSdServerRPCStats made by the running call of Update
    outbox,        \* metrics Update has produced and not yet sent
    chcap,         \* capacity of the channel ch of the running call
    chbuf,         \* the metrics buffered in ch
    received,      \* the metrics the caller has received from ch
    ret,           \* what the last call of Update returned, Pending while it runs
    prev           \* an observer's record of one earlier successful call

vars == <<pc, idx, stats, err, acquisitions, outbox, chcap, chbuf, received, ret, prev>>

\* The metrics whose send on ch has completed, in the order of the sends.
Delivered == received \o chbuf

Init ==
    /\ pc = "idle"
    /\ idx = 0
    /\ stats = NoStats
    /\ err = NoErr
    /\ acquisitions = 0
    /\ outbox = <<>>
    /\ chcap = 0
    /\ chbuf = <<>>
    /\ received = <<>>
    /\ ret = Pending
    /\ prev = NoCycle

\* The caller calls Update(ch) with a channel of its own.
Call ==
    /\ pc = "idle"
    /\ \E c \in 0..MaxCap : chcap' = c
    /\ chbuf' = <<>>
    /\ received' = <<>>
    /\ pc' = "acquire"
    /\ idx' = 0
    /\ stats' = NoStats
    /\ err' = NoErr
    /\ acquisitions' = 0
    /\ outbox' = <<>>
    /\ ret' = Pending
    /\ UNCHANGED prev

\* stats, err := c.fs.NFSdServerRPCStats() with err == nil.
AcquireOK ==
    /\ pc = "acquire"
    /\ \E s \in Snapshots : stats' = s
    /\ err' = NoErr
    /\ acquisitions' = acquisitions + 1
    /\ pc' = "produce"
    /\ idx' = 1
    /\ UNCHANGED <<outbox, chcap, chbuf, received, ret, prev>>

\* Mutation: the error is noted and Update goes on to send.
AcquireFail_Continue ==
    /\ pc = "acquire"
    /\ \E e \in AcquireErrors : err' = e
    /\ stats' = BaseStats
    /\ acquisitions' = acquisitions + 1
    /\ pc' = "produce"
    /\ idx' = 1
    /\ UNCHANGED <<outbox, chcap, chbuf, received, ret, prev>>

\* Mutation: Update tries the acquisition again when it has failed.
AcquireFail_Retry ==
    /\ pc = "acquire"
    /\ \E e \in AcquireErrors : err' = e
    /\ acquisitions' = acquisitions + 1
    /\ UNCHANGED <<pc, idx, stats, outbox, chcap, chbuf, received, ret, prev>>

\* stats, err := c.fs.NFSdServerRPCStats() with err != nil: Update returns
\* the wrapped error.
AcquireFail ==
    /\ pc = "acquire"
    /\ \E e \in AcquireErrors : err' = e /\ ret' = Errorf(e)
    /\ acquisitions' = acquisitions + 1
    /\ pc' = "idle"
    /\ UNCHANGED <<idx, stats, outbox, chcap, chbuf, received, prev>>

\* Mutation: Update evaluates the next operand without sending this one.
Produce_NoWait ==
    /\ pc = "produce"
    /\ outbox' = Append(outbox, UpdateSends(stats)[idx])
    /\ IF idx < Len(UpdateSends(stats))
       THEN pc' = "produce" /\ idx' = idx + 1
       ELSE pc' = "send" /\ idx' = idx
    /\ UNCHANGED <<stats, err, acquisitions, chcap, chbuf, received, ret, prev>>

\* Mutation: Update remembers the values of an earlier call and sends zero
\* for a value that has not changed since.
Produce_SinceLast ==
    /\ pc = "produce"
    /\ LET m == UpdateSends(stats)[idx]
       IN  outbox' = Append(outbox,
                        IF prev # NoCycle /\ prev.samples[idx].val = m.val
                        THEN [m EXCEPT !.val = {}] ELSE m)
    /\ pc' = "send"
    /\ UNCHANGED <<idx, stats, err, acquisitions, chcap, chbuf, received, ret, prev>>

\* The operand of send statement idx is evaluated.
Produce ==
    /\ pc = "produce"
    /\ LET m == UpdateSends(stats)[idx]
       IN  IF m = Panic
           THEN pc' = "panic" /\ UNCHANGED outbox
           ELSE pc' = "send" /\ outbox' = Append(outbox, m)
    /\ UNCHANGED <<idx, stats, err, acquisitions, chcap, chbuf, received, ret, prev>>

\* Where Update goes when send statement idx has completed.
AfterSend ==
    IF idx < Len(UpdateSends(stats))
    THEN pc' = "produce" /\ idx' = idx + 1
    ELSE pc' = "return" /\ idx' = 0

\* ch <- m completes by putting m in the channel's buffer.
SendBuffered ==
    /\ pc = "send"
    /\ Len(chbuf) < chcap
    /\ chbuf' = Append(chbuf, Head(outbox))
    /\ outbox' = Tail(outbox)
    /\ AfterSend
    /\ UNCHANGED <<stats, err, acquisitions, chcap, received, ret, prev>>

\* ch <- m completes by handing m to the caller, waiting in a receive.
SendDirect ==
    /\ pc = "send"
    /\ chbuf = <<>>
    /\ received' = Append(received, Head(outbox))
    /\ outbox' = Tail(outbox)
    /\ AfterSend
    /\ UNCHANGED <<stats, err, acquisitions, chcap, chbuf, ret, prev>>

\* The caller receives the oldest buffered metric.
Receive ==
    /\ chbuf # <<>>
    /\ received' = Append(received, Head(chbuf))
    /\ chbuf' = Tail(chbuf)
    /\ UNCHANGED <<pc, idx, stats, err, acquisitions, outbox, chcap, ret, prev>>

\* return nil.  The observer may keep this call's record instead of its old one.
Return ==
    /\ pc = "return"
    /\ ret' = Nil
    /\ pc' = "idle"
    /\ prev' \in {prev, [stats |-> stats, samples |-> Delivered]}
    /\ UNCHANGED <<idx, stats, err, acquisitions, outbox, chcap, chbuf, received>>

Next ==
    \/ Call
    \/ AcquireOK
    \/ AcquireFail
    \/ Produce
    \/ SendBuffered
    \/ SendDirect
    \/ Receive
    \/ Return

Spec == Init /\ [][Next]_vars

\* =============================================================== properties
\* The table of section 4.2 of the specification, one row per emission, in
\* its order: the name's suffix, the kind, the label names, the label values
\* and the snapshot field the value is taken from.
SampleTable ==
    << [suffix |-> "reply_cache_hits_total", kind |-> "counter", labels |-> <<>>,
        proto |-> <<>>, field |-> <<"ReplyCache", "Hits">>],
       [suffix |-> "reply_cache_misses_total", kind |-> "counter", labels |-> <<>>,
        proto |-> <<>>, field |-> <<"ReplyCache", "Misses">>],
       [suffix |-> "reply_cache_nocache_total", kind |-> "counter", labels |-> <<>>,
        proto |-> <<>>, field |-> <<"ReplyCache", "NoCache">>],
       [suffix |-> "file_handles_stale_total", kind |-> "counter", labels |-> <<>>,
        proto |-> <<>>, field |-> <<"FileHandles", "Stale">>],
       [suffix |-> "disk_bytes_read_total", kind |-> "counter", labels |-> <<>>,
        proto |-> <<>>, field |-> <<"InputOutput", "Read">>],
       [suffix |-> "disk_bytes_written_total", kind |-> "counter", labels |-> <<>>,
        proto |-> <<>>, field |-> <<"InputOutput", "Write">>],
       [suffix |-> "server_threads", kind |-> "gauge", labels |-> <<>>,
        proto |-> <<>>, field |-> <<"Threads", "Threads">>],
       [suffix |-> "read_ahead_cache_size_blocks", kind |-> "gauge", labels |-> <<>>,
        proto |-> <<>>, field |-> <<"ReadAheadCache", "CacheSize">>],
       [suffix |-> "read_ahead_cache_not_found_total", kind |-> "counter", labels |-> <<>>,
        proto |-> <<>>, field |-> <<"ReadAheadCache", "NotFound">>],
       [suffix |-> "packets_total", kind |-> "counter", labels |-> <<"proto">>,
        proto |-> <<"udp">>, field |-> <<"Network", "UDPCount">>],
       [suffix |-> "packets_total", kind |-> "counter", labels |-> <<"proto">>,
        proto |-> <<"tcp">>, field |-> <<"Network", "TCPCount">>],
       [suffix |-> "connections_total", kind |-> "counter", labels |-> <<>>,
        proto |-> <<>>, field |-> <<"Network", "TCPConnect">>] >>

TableRows == {SampleTable[i] : i \in DOMAIN SampleTable}

\* namespace + "_nfsd_" + suffix
FullName(suffix) == <<namespace, "nfsd", suffix>>

\* The snapshot field a row names.
Field(st, row) == st[row.field[1]][row.field[2]]

\* The rows that match a metric's name and label values.
RowsOf(m) ==
    {r \in TableRows : m.desc.fqName = FullName(r.suffix) /\ m.labelValues = r.proto}

\* Everything the running call has produced so far, in order.
Produced == Delivered \o outbox

\* The call of Update has returned nil.
Succeeded == pc = "idle" /\ ret = Nil

\* Every send of the call has completed and Update is about to return nil.
AllSent == pc = "return"

\* How many metrics of a sequence have one of the names.
CountNamed(seq, suffixes) ==
    Cardinality({i \in DOMAIN seq : seq[i].desc.fqName \in {FullName(x) : x \in suffixes}})

Names(seq) == {seq[i].desc.fqName : i \in DOMAIN seq}

\* The lowest one-bit of a non-zero number.
RECURSIVE LowestFrom(_, _)
LowestFrom(S, b) == IF b \in S THEN b ELSE LowestFrom(S, b + 1)

\* An integer is a float64 when its one-bits span at most 53 positions.
IsFloat64(S) == (\A b \in S : b < 53) \/ MaxBit(S) - LowestFrom(S, 0) < 53

\* The largest float64 not above x and the smallest not below it, for an x
\* that is no float64.
Float64Below(S) == {b \in S : b > MaxBit(S) - 53}
Float64Above(S) == AddBit(Float64Below(S), MaxBit(S) - 52)

\* v is x cast to float64: x itself when x is a float64, else one of the two
\* float64 next to x.
IsCastOf(v, x) ==
    IF IsFloat64(x) THEN v = x ELSE v \in {Float64Below(x), Float64Above(x)}

\* ------------------------------------------------------------------- C1
\* C1: when the acquisition fails, Update has sent nothing, holds nothing, and
\* has returned the error that wraps the acquisition's error; no state of such
\* a call has a sample sent or produced.
C1_FailureEmitsNothing ==
    err # NoErr =>
        /\ pc = "idle"
        /\ Delivered = <<>>
        /\ outbox = <<>>
        /\ ret = [error |-> <<"failed to retrieve nfsd stats: ", err>>]
        /\ ret # Nil

\* A call on a buffered channel whose acquisition has failed.
C1_Witness == err # NoErr /\ chcap = 1 /\ pc = "idle" /\ ret # Nil /\ ret # Pending

\* ------------------------------------------------------------------- C2
\* C2 as stated: a successful call has sent exactly 11 samples.
C2_Original == Succeeded => Len(Delivered) = 11

\* C2, amended: a call whose acquisition succeeds sends exactly 12 samples
\* (3 reply cache, 1 file handles, 2 input/output, 1 threads, 2 read-ahead
\* cache, 3 network) whatever the values, never more, and then returns nil.
C2_ExactlyTwelveSamples ==
    /\ Len(Produced) <= 12
    /\ (pc = "idle" /\ stats # NoStats) => ret = Nil
    /\ Succeeded => Len(Delivered) = 12 /\ outbox = <<>>
    /\ AllSent =>
        /\ Len(Delivered) = 12
        /\ outbox = <<>>
        /\ CountNamed(Delivered, {"reply_cache_hits_total", "reply_cache_misses_total",
                                  "reply_cache_nocache_total"}) = 3
        /\ CountNamed(Delivered, {"file_handles_stale_total"}) = 1
        /\ CountNamed(Delivered, {"disk_bytes_read_total", "disk_bytes_written_total"}) = 2
        /\ CountNamed(Delivered, {"server_threads"}) = 1
        /\ CountNamed(Delivered, {"read_ahead_cache_size_blocks",
                                  "read_ahead_cache_not_found_total"}) = 2
        /\ CountNamed(Delivered, {"packets_total", "connections_total"}) = 3

\* A successful call on a snapshot with a zero field and the largest uint64.
C2_Witness ==
    /\ Succeeded
    /\ stats.FileHandles.Stale = {}
    /\ stats.ReplyCache.Hits = MaxUint64
    /\ Len(Delivered) = 12

\* ------------------------------------------------------------------- C3
\* The ten samples C3 names.
C3Rows == {r \in TableRows : r.suffix # "packets_total"}

\* C3 as stated: when every send of a call has completed, the value of each
\* of the ten samples is its source field.
C3_Original ==
    AllSent => \A i \in DOMAIN Delivered : \A r \in RowsOf(Delivered[i]) \cap C3Rows :
        Delivered[i].val = Field(stats, r)

\* C3, amended: when every send of a call has completed, every sample has a
\* row in the table, and the value of each of the ten samples is its own
\* source field cast to float64: the field itself when the field is a float64 (every field
\* up to 2^53 is), else one of the two float64 next to the field.
C3_ValueIsCastOfField ==
    AllSent => \A i \in DOMAIN Delivered :
        /\ RowsOf(Delivered[i]) # {}
        /\ \A r \in RowsOf(Delivered[i]) \cap C3Rows :
              /\ IsCastOf(Delivered[i].val, Field(stats, r))
              /\ IsFloat64(Delivered[i].val)

\* A successful call on a snapshot one of whose ten fields is 2^53 + 3, sent
\* as 2^53 + 4.
C3_Witness ==
    /\ Succeeded
    /\ stats.InputOutput.Read = {0, 1, 53}
    /\ Delivered[5].val = {2, 53}
    /\ Delivered[6].val = stats.InputOutput.Write

\* ------------------------------------------------------------------- C4
Packets == SelectSeq(Delivered, LAMBDA m : m.desc.fqName = FullName("packets_total"))

\* C4: when every send of a call has completed, packets_total has been sent twice, first with proto "udp"
\* and the cast of Network.UDPCount, then with proto "tcp" and the cast of
\* Network.TCPCount, both with the one descriptor.
C4_PacketsUdpThenTcp ==
    AllSent =>
        /\ Len(Packets) = 2
        /\ Packets[1].labelValues = <<"udp">>
        /\ Packets[1].desc.variableLabels = <<"proto">>
        /\ IsCastOf(Packets[1].val, stats.Network.UDPCount)
        /\ Packets[2].labelValues = <<"tcp">>
        /\ IsCastOf(Packets[2].val, stats.Network.TCPCount)
        /\ Packets[2].desc = Packets[1].desc

\* A successful call whose UDP and TCP counts differ, in both orders of size.
C4_Witness ==
    /\ Succeeded
    /\ stats.Network.TCPCount = {0, 53}
    /\ stats.Network.UDPCount = BitsOf(100)
    /\ Len(Packets) = 2
    /\ Packets[1].val # Packets[2].val

\* ------------------------------------------------------------------- C5
\* Every produced sample has the name, kind and label names of a table row with
\* its name; the gauges are exactly server_threads and
\* read_ahead_cache_size_blocks, the labelled samples exactly packets_total.
ShapeAsInTable ==
    \A i \in DOMAIN Delivered :
        LET m == Delivered[i]
        IN  /\ \E r \in TableRows :
                  /\ m.desc.fqName = FullName(r.suffix)
                  /\ m.valType = r.kind
                  /\ m.desc.variableLabels = r.labels
            /\ m.valType \in {"counter", "gauge"}
            /\ m.valType = "gauge" <=>
                  m.desc.fqName \in {FullName("server_threads"),
                                     FullName("read_ahead_cache_size_blocks")}
            /\ m.desc.variableLabels = <<"proto">> <=>
                  m.desc.fqName = FullName("packets_total")
            /\ m.desc.variableLabels \in {<<>>, <<"proto">>}

\* Name, help text, label names and kind of the samples of this call are those
\* of the recorded earlier call, whatever the two snapshots.
ShapeAsBefore ==
    prev # NoCycle =>
        \A i \in DOMAIN Delivered :
            /\ Delivered[i].desc = prev.samples[i].desc
            /\ Delivered[i].valType = prev.samples[i].valType

NumberOfKind(kind) == Cardinality({i \in DOMAIN Delivered : Delivered[i].valType = kind})

\* C5 as stated: ... two gauges, and Counter for the other nine samples.
C5_Original ==
    AllSent => ShapeAsInTable /\ ShapeAsBefore
                 /\ NumberOfKind("gauge") = 2 /\ NumberOfKind("counter") = 9

\* C5, amended: when every send of a call has completed, every sample has the
\* name, kind and label names the table fixes: Gauge for exactly server_threads
\* and read_ahead_cache_size_blocks, Counter for the other ten samples, the
\* labels {proto} for exactly the two packets_total samples; and none of name,
\* kind, help text and label names depends on the snapshot.
C5_ShapeFixedByTable ==
    AllSent => ShapeAsInTable /\ ShapeAsBefore
                 /\ NumberOfKind("gauge") = 2 /\ NumberOfKind("counter") = 10
                 /\ CountNamed(Delivered, {"packets_total"}) = 2

\* Two successful calls on different snapshots.
C5_Witness ==
    /\ AllSent
    /\ prev # NoCycle
    /\ prev.stats.Threads.Threads # stats.Threads.Threads
    /\ prev.stats.ReadAheadCache.CacheSize # stats.ReadAheadCache.CacheSize
    /\ Len(Delivered) = 12

\* ------------------------------------------------------------------- C6
\* C6: at every moment of a call, what it has produced so far is, name by name
\* and label by label, the beginning of the table's list: hits, misses,
\* nocache; stale; read, written; server_threads; size_blocks, not_found;
\* packets udp, packets tcp, connections.  The caller receives in that order.
C6_TableOrder ==
    /\ Len(Produced) <= Len(SampleTable)
    /\ \A i \in DOMAIN Produced :
          /\ Produced[i].desc.fqName = FullName(SampleTable[i].suffix)
          /\ Produced[i].labelValues = SampleTable[i].proto

\* The caller has received everything up to the first sample of the last
\* group while the second waits in the channel and the third in the send.
C6_Witness ==
    /\ pc = "send"
    /\ idx = 12
    /\ Len(received) = 10
    /\ Len(chbuf) = 1
    /\ Len(outbox) = 1

\* ------------------------------------------------------------------- C7
\* C7: a completed call and any recorded earlier successful call agree on the
\* value of every sample whose source field is the same in the two snapshots.
C7_SameFieldSameValue ==
    (AllSent /\ prev # NoCycle) =>
        \A i \in DOMAIN SampleTable :
            Field(prev.stats, SampleTable[i]) = Field(stats, SampleTable[i])
                => /\ i \in DOMAIN Delivered
                   /\ i \in DOMAIN prev.samples
                   /\ Delivered[i].val = prev.samples[i].val

\* Two calls whose snapshots differ in Threads.Threads alone: server_threads
\* differs and the other eleven samples are the same.
C7_Witness ==
    /\ AllSent
    /\ prev # NoCycle
    /\ prev.stats.Threads.Threads # stats.Threads.Threads
    /\ [prev.stats EXCEPT !.Threads = stats.Threads] = stats
    /\ Delivered[7].val # prev.samples[7].val
    /\ \A i \in (1..12) \ {7} : Delivered[i] = prev.samples[i]

\* ------------------------------------------------------------------- C8
\* C8: Update holds at most one produced sample that is not yet sent, and none
\* when it evaluates the next one, when it returns and when it is not running;
\* at send statement idx exactly idx - 1 sends have completed; it returns nil
\* only when the 11th send, and every other, has completed.
C8_OneSampleInFlight ==
    /\ Len(outbox) <= 1
    /\ pc = "produce" => outbox = <<>> /\ Len(Delivered) = idx - 1
    /\ pc = "send" => Len(outbox) = 1 /\ Len(Delivered) = idx - 1
    /\ pc \in {"idle", "acquire", "return"} => outbox = <<>>
    /\ Succeeded => Len(Delivered) >= 11 /\ outbox = <<>>

\* Update is blocked in its last send on a full channel.
C8_Witness ==
    /\ pc = "send"
    /\ idx = Len(SampleTable)
    /\ chcap = 1
    /\ Len(chbuf) = chcap
    /\ Len(outbox) = 1

\* ------------------------------------------------------------------- C9
\* C9: a call acquires once, before it produces anything: never twice, also
\* not after a failure; and when every send has completed, every sample is the
\* cast of its field of the one snapshot of the call.
C9_OneAcquisition ==
    /\ acquisitions <= 1
    /\ pc \in {"produce", "send", "return"} => acquisitions = 1 /\ stats # NoStats
    /\ Produced # <<>> => acquisitions = 1 /\ stats # NoStats
    /\ (pc = "idle" /\ ret # Pending) => acquisitions = 1
    /\ pc = "acquire" => acquisitions = 0 /\ Produced = <<>>
    /\ AllSent =>
          \A i \in DOMAIN Delivered :
              IsCastOf(Delivered[i].val, Field(stats, SampleTable[i]))

\* A call that has returned an error after its one acquisition.
C9_Witness == pc = "idle" /\ err # NoErr /\ acquisitions = 1 /\ stats = NoStats

\* ------------------------------------------------------------------ C10
SeriesOf(m) == <<m.desc.fqName, m.labelValues>>

\* No two produced samples have the same name and label values, and two
\* samples of one name are packets_total samples.
DistinctSeries ==
    \A i, j \in DOMAIN Produced :
        i # j =>
            /\ SeriesOf(Produced[i]) # SeriesOf(Produced[j])
            /\ Produced[i].desc.fqName = Produced[j].desc.fqName
                  => Produced[i].desc.fqName = FullName("packets_total")

\* C10 as stated: ... the samples of a successful call carry 10 names.
C10_Original == AllSent => DistinctSeries /\ Cardinality(Names(Delivered)) = 10

\* C10, amended: within a call no two samples have the same series identity;
\* the 12 samples of a successful call carry 11 names, packets_total is the
\* only name sent more than once, and its two samples differ in proto.
C10_DistinctSeries ==
    /\ DistinctSeries
    /\ AllSent => Len(Delivered) = 12 /\ Cardinality(Names(Delivered)) = 11

\* All sends completed: the two packets_total samples differ in proto alone.
C10_Witness ==
    /\ AllSent
    /\ Delivered[10].desc = Delivered[11].desc
    /\ Delivered[10].labelValues # Delivered[11].labelValues
    /\ Cardinality(Names(Delivered)) = 11

====
